---- MODULE Spec2Model ----
(***************************************************************************)
(* A model of LicenseTxtGenerator (src/main.py, src/models.py).            *)
(*                                                                         *)
(* Python strings are sequences of one-character strings ("chunks").  A    *)
(* literal piece of an f-string template is kept as one multi-character    *)
(* chunk (<<"Package: ">>), so a text is the concatenation of its chunks.  *)
(* None is the one-chunk sequence <<"None">>: it differs from every real   *)
(* string of the model (whose chunks are single characters), and it is     *)
(* what str(None) renders.                                                 *)
(*                                                                         *)
(* A call that can raise returns a record with a field exc: "" when the    *)
(* call returned, the name of the exception otherwise.                     *)
(***************************************************************************)
EXTENDS Integers, Sequences, FiniteSets, TLC

VARIABLES
    pc,            \* position of the current call
    string,        \* Requirement.from_string: the argument
    requirement,   \* Requirement.from_string: the result
    d,             \* Package.from_dict: the argument, a dict
    package,       \* Package.from_dict: the result
    nan,           \* Package.has_nan: the result
    fs,            \* the files: path -> file
    before,        \* the files as they were when the current run began
    runs,          \* number of calls of gen_license_txt so far
    input_file_path,      \* gen_license_txt: argument
    output_file_path,     \* gen_license_txt: argument
    override_input_file,  \* gen_license_txt: argument
    target_licenses,      \* gen_license_txt: argument
    packages,      \* gen_license_txt: local
    requirements,  \* gen_license_txt: local
    validation,    \* gen_license_txt: [is_valid, msg], what _is_valid_packages returned
    raised         \* <<function, exception>>: what ended the run, <<"", "">> if nothing

parseVars == <<string, requirement>>

recordVars == <<d, package, nan>>

argVars == <<input_file_path, output_file_path, override_input_file, target_licenses>>

runVars == <<fs, before, runs, argVars, packages, requirements, validation, raised>>

vars == <<pc, parseVars, recordVars, runVars>>

----------------------------------------------------------------------------
(* Bounds of the model.                                                    *)

MaxLen == 4

MaxFieldLen == 2

MaxPkgs == 3

MaxReqs == 2

MaxTargets == 2

MaxRecords == 1

MaxRuns == 2

----------------------------------------------------------------------------
(* Numbers of the program.                                                 *)

\* Package.__repr__: a license text this long or longer is cut ...
ReprLimit == 20

\* ... to this many characters, followed by "...".
ReprKeep == 17

\* _write_output_file: the width of the rules of a banner ...
BannerWidth == 80

\* ... and of the separator between two packages.
SeparatorWidth == 80

----------------------------------------------------------------------------
(* Python built-ins on strings.                                            *)

None == <<"None">>

Whitespace == {" ", "\n"}

Min(S) == CHOOSE x \in S : \A y \in S : x <= y

Max(S) == CHOOSE x \in S : \A y \in S : x >= y

\* `t in s` for strings.
Contains(s, t) ==
    \E i \in 0..(Len(s) - Len(t)) : SubSeq(s, i + 1, i + Len(t)) = t

\* s.find(t) + 1: the index of the leftmost occurrence of t in s, 0 if none.
Find(s, t) ==
    LET occ == {i \in 1..(Len(s) - Len(t) + 1) : SubSeq(s, i, i + Len(t) - 1) = t}
    IN  IF occ = {} THEN 0 ELSE Min(occ)

\* A plausible slip: a split that drops trailing empty strings (as Java's does).
RECURSIVE split_drop_trailing_empty(_, _)
split_drop_trailing_empty(s, sep) ==
    LET i == Find(s, sep)
    IN  IF i = 0
        THEN IF s = <<>> THEN <<>> ELSE <<s>>
        ELSE LET rest == split_drop_trailing_empty(SubSeq(s, i + Len(sep), Len(s)), sep)
             IN  IF rest = <<>> /\ i = 1 THEN <<>>
                 ELSE <<SubSeq(s, 1, i - 1)>> \o rest

\* s.split(sep) for a non-empty sep: cut at the non-overlapping occurrences of
\* sep, scanning from the left; the result always has at least one element.
RECURSIVE split(_, _)
split(s, sep) ==
    LET i == Find(s, sep)
    IN  IF i = 0
        THEN <<s>>
        ELSE <<SubSeq(s, 1, i - 1)>> \o split(SubSeq(s, i + Len(sep), Len(s)), sep)

\* s.strip(): s without its leading and trailing whitespace.
strip(s) ==
    LET keep == {i \in 1..Len(s) : s[i] \notin Whitespace}
    IN  IF keep = {} THEN <<>> ELSE SubSeq(s, Min(keep), Max(keep))

----------------------------------------------------------------------------
(* models.py: Operator and Requirement.                                    *)

\* The members of the enumeration Operator, in the order of their declaration.
Operator == <<"EE", "NE", "GE", "LE", "G", "L", "TE", "U">>

\* Operator.<member>.value
OperatorValue(op) ==
    CASE op = "EE" -> <<"=", "=">>
      [] op = "NE" -> <<"!", "=">>
      [] op = "GE" -> <<">", "=">>
      [] op = "LE" -> <<"<", "=">>
      [] op = "G"  -> <<">">>
      [] op = "L"  -> <<"<">>
      [] op = "TE" -> <<"~", "=">>
      [] op = "U"  -> <<>>

\* cls(name, version, operator)
Requirement(name, version, operator) ==
    [exc |-> "", name |-> name, version |-> version, operator |-> operator]

\* splited_line[0], splited_line[1] raise IndexError on a list that is too short.
IndexError == [exc |-> "IndexError", name |-> None, version |-> <<>>, operator |-> "U"]

\* The value of the variable requirement before from_string has returned.
NoRequirement == [exc |-> "", name |-> None, version |-> <<>>, operator |-> "U"]

\* One branch of from_string: split on the token of `tok`, build with `operator`.
from_string_branch(s, tok, operator) ==
    LET splited_line == split(s, OperatorValue(tok))
    IN  IF Len(splited_line) < 2
        THEN IndexError
        ELSE Requirement(splited_line[1], splited_line[2], operator)

\* A plausible slip: the one-character tokens tested before the two-character ones.
from_string_short_tokens_first(raw) ==
    LET s == strip(raw)
    IN  IF Contains(s, OperatorValue("G")) THEN from_string_branch(s, "G", "G")
        ELSE IF Contains(s, OperatorValue("L")) THEN from_string_branch(s, "L", "L")
        ELSE IF Contains(s, OperatorValue("EE")) THEN from_string_branch(s, "EE", "EE")
        ELSE IF Contains(s, OperatorValue("NE")) THEN from_string_branch(s, "NE", "EE")
        ELSE IF Contains(s, OperatorValue("GE")) THEN from_string_branch(s, "GE", "GE")
        ELSE IF Contains(s, OperatorValue("LE")) THEN from_string_branch(s, "LE", "LE")
        ELSE IF Contains(s, OperatorValue("TE")) THEN from_string_branch(s, "TE", "TE")
        ELSE Requirement(s, <<>>, "U")

\* Requirement.from_string
from_string(raw) ==
    LET s == strip(raw)
    IN  IF Contains(s, OperatorValue("EE")) THEN from_string_branch(s, "EE", "EE")
        ELSE IF Contains(s, OperatorValue("NE")) THEN from_string_branch(s, "NE", "EE")
        ELSE IF Contains(s, OperatorValue("GE")) THEN from_string_branch(s, "GE", "GE")
        ELSE IF Contains(s, OperatorValue("LE")) THEN from_string_branch(s, "LE", "LE")
        ELSE IF Contains(s, OperatorValue("G")) THEN from_string_branch(s, "G", "G")
        ELSE IF Contains(s, OperatorValue("L")) THEN from_string_branch(s, "L", "L")
        ELSE IF Contains(s, OperatorValue("TE")) THEN from_string_branch(s, "TE", "TE")
        ELSE Requirement(s, <<>>, "U")

----------------------------------------------------------------------------
(* models.py: Package.                                                     *)

\* piplicenses.LICENSE_UNKNOWN
LICENSE_UNKNOWN == <<"U", "N", "K", "N", "O", "W", "N">>

\* The keys of a scanner record.
Keys == {"Name", "Version", "License", "LicenseText"}

\* d.get(key): None when the dict has no such key.
Get(dict, key) == IF key \in DOMAIN dict THEN dict[key] ELSE None

\* cls(name, version, license, license_text)
Package(name, version, license, license_text) ==
    [name |-> name, version |-> version, license |-> license, license_text |-> license_text]

\* A plausible slip: the license text stored as read, not trimmed.
from_dict_no_strip(dict) ==
    Package(Get(dict, "Name"), Get(dict, "Version"), Get(dict, "License"),
            Get(dict, "LicenseText"))

\* Package.from_dict
from_dict(dict) ==
    LET name == Get(dict, "Name")
        version == Get(dict, "Version")
        license == Get(dict, "License")
        license_text == Get(dict, "LicenseText")
    IN  Package(name, version, license,
                IF license_text # None THEN strip(license_text) ELSE license_text)

\* The local function predicate of has_nan.
predicate(val) == (val = None) \/ (val = <<>>) \/ Contains(val, LICENSE_UNKNOWN)

\* Package.has_nan
has_nan(self) ==
    \/ predicate(self.name)
    \/ predicate(self.version)
    \/ predicate(self.license)
    \/ predicate(self.license_text)

\* Package.__repr__: len(None) raises TypeError.
Package_repr(self) ==
    IF self.license_text = None
    THEN [exc |-> "TypeError", val |-> <<>>]
    ELSE LET _license_text ==
                 IF Len(self.license_text) < ReprLimit
                 THEN self.license_text
                 ELSE SubSeq(self.license_text, 1, ReprKeep) \o <<"...">>
         IN  [exc |-> "",
              val |-> <<"name=">> \o self.name \o <<", version=">> \o self.version
                      \o <<", license=">> \o self.license
                      \o <<", license_text=">> \o _license_text]

\* Requirement.__repr__
Requirement_repr(self) ==
    IF self.operator = "U"
    THEN self.name \o <<" ">> \o self.version
    ELSE self.name \o OperatorValue(self.operator) \o self.version

----------------------------------------------------------------------------
(* main.py: constants and files.                                           *)

META_INPUT_FILE_PATH == "license.meta.json"

INPUT_FILE_PATH == "license.json"

OUTPUT_FILE_PATH == "LICENSE.txt"

REQUIREMENTS_FILE_PATH == "requirements.txt"

MIT == <<"M", "I", "T">>

BSD == <<"B", "S", "D">>

GPL == <<"G", "P", "L">>

TARGET_LICENSES == <<MIT, BSD, GPL>>

\* A file is absent, or holds JSON (a list of dicts, or null), the lines of a
\* manifest, or the text written to it: the sequence of the strings written.
Absent == [kind |-> "absent", data |-> <<>>]

JsonFile(lst) == [kind |-> "json", data |-> lst]

JsonNull == [kind |-> "json_null", data |-> <<>>]

LinesFile(lines) == [kind |-> "lines", data |-> lines]

TextFile(written) == [kind |-> "text", data |-> written]

\* os.path.exists(path)
exists(files, path) == files[path].kind # "absent"

\* os.remove(path)
remove(files, path) == [files EXCEPT ![path] = Absent]

\* sep.join(lst)
RECURSIVE join(_, _)
join(sep, lst) ==
    IF lst = <<>> THEN <<>>
    ELSE IF Len(lst) = 1 THEN lst[1]
    ELSE lst[1] \o sep \o join(sep, Tail(lst))

\* ch * n + "\n"
rule(ch, n) == [i \in 1..n |-> ch] \o <<"\n">>

----------------------------------------------------------------------------
(* main.py: _write_input_file.  `scanner` is what the pip-licenses process *)
(* does when it is run: it writes a record list to the file, writes        *)
(* nothing (subprocess.run does not check its exit status), or cannot be   *)
(* started (subprocess.run raises).                                        *)

_write(files, path, scanner) ==
    CASE scanner.does = "writes" ->
             [exc |-> "", fs |-> [files EXCEPT ![path] = JsonFile(scanner.records)]]
      [] scanner.does = "nothing" -> [exc |-> "", fs |-> files]
      [] scanner.does = "raises" -> [exc |-> "FileNotFoundError", fs |-> files]

_write_input_file(files, path, override, scanner) ==
    IF exists(files, path)
    THEN IF override
         THEN _write(remove(files, path), path, scanner)
         ELSE [exc |-> "", fs |-> files]
    ELSE _write(files, path, scanner)

----------------------------------------------------------------------------
(* main.py: _read_input_file and _read_requirement_file.                   *)

\* open(path) and json.load(f), with `if lst is None: lst = []`.
load_list(files, path) ==
    LET f == files[path]
    IN  CASE f.kind = "absent" -> [exc |-> "FileNotFoundError", val |-> <<>>]
          [] f.kind = "json" -> [exc |-> "", val |-> f.data]
          [] f.kind = "json_null" -> [exc |-> "", val |-> <<>>]
          [] OTHER -> [exc |-> "JSONDecodeError", val |-> <<>>]

\* The file opened is INPUT_FILE_PATH; the argument is only printed.
_read_input_file(files, path) ==
    LET lst == load_list(files, INPUT_FILE_PATH)
        lst_meta == load_list(files, META_INPUT_FILE_PATH)
    IN  IF lst.exc # "" THEN [exc |-> lst.exc, val |-> <<>>]
        ELSE IF lst_meta.exc # "" THEN [exc |-> lst_meta.exc, val |-> <<>>]
        ELSE LET all == lst.val \o lst_meta.val
             IN  [exc |-> "", val |-> [i \in 1..Len(all) |-> from_dict(all[i])]]

_read_requirement_file(files, requirement_file_path) ==
    LET f == files[requirement_file_path]
    IN  IF f.kind = "absent" THEN [exc |-> "FileNotFoundError", val |-> <<>>]
        ELSE LET lines == f.data
                 reqs == [i \in 1..Len(lines) |-> from_string(lines[i])]
                 failed == {i \in 1..Len(lines) : reqs[i].exc # ""}
             IN  IF failed # {}
                 THEN [exc |-> reqs[Min(failed)].exc, val |-> <<>>]
                 ELSE [exc |-> "", val |-> reqs]

----------------------------------------------------------------------------
(* main.py: _is_valid_packages.                                            *)

\* A plausible slip: the membership test inverted.
unrequired_inverted(pkg, reqs) ==
    pkg.name \in {reqs[j].name : j \in 1..Len(reqs)}

\* pkg.name not in [r.name for r in requirements]
unrequired(pkg, reqs) ==
    pkg.name \notin {reqs[j].name : j \in 1..Len(reqs)}

\* requirement.name not in [pkg.name for pkg in packges]
unsatisfied(req, packges) ==
    req.name \notin {packges[j].name : j \in 1..Len(packges)}

\* lst_msg.append(f"<prefix>{pkg}"): formatting pkg may raise.
append_msg(acc, prefix, text) ==
    IF text.exc # ""
    THEN [acc EXCEPT !.exc = text.exc, !.is_valid = FALSE]
    ELSE [acc EXCEPT !.is_valid = FALSE, !.lst_msg = Append(@, prefix \o text.val)]

\* The body of the first loop, for pkg.
check_package(acc, pkg, reqs) ==
    LET a1 == IF has_nan(pkg)
              THEN append_msg(acc, <<"!!!! found nan pkg: ">>, Package_repr(pkg))
              ELSE acc
    IN  IF a1.exc = "" /\ unrequired(pkg, reqs)
        THEN append_msg(a1, <<"!!!! found unrequired pkg: ">>, Package_repr(pkg))
        ELSE a1

\* The first loop, from the i-th package on.
RECURSIVE check_packages(_, _, _, _)
check_packages(acc, packges, reqs, i) ==
    IF i > Len(packges) \/ acc.exc # "" THEN acc
    ELSE check_packages(check_package(acc, packges[i], reqs), packges, reqs, i + 1)

\* The second loop, from the i-th requirement on.
RECURSIVE check_requirements(_, _, _, _)
check_requirements(acc, packges, reqs, i) ==
    IF i > Len(reqs) \/ acc.exc # "" THEN acc
    ELSE check_requirements(
             IF unsatisfied(reqs[i], packges)
             THEN append_msg(acc, <<"!!!! found unsatisfied pkg: ">>,
                             [exc |-> "", val |-> Requirement_repr(reqs[i])])
             ELSE acc,
             packges, reqs, i + 1)

_is_valid_packages(packges, reqs) ==
    LET start == [exc |-> "", is_valid |-> TRUE, lst_msg |-> <<>>]
        acc == check_requirements(check_packages(start, packges, reqs, 1), packges, reqs, 1)
    IN  [exc |-> acc.exc, is_valid |-> acc.is_valid, msg |-> join(<<"\n">>, acc.lst_msg)]

----------------------------------------------------------------------------
(* main.py: _write_output_file.  The result is the text written so far and *)
(* the exception that stopped the writing, if any; leaving the with block  *)
(* closes the file, so what was written before an exception stays in it.   *)

\* A plausible slip: the license compared for equality.
license_matches_exactly(target_license, pkg) == pkg.license = target_license

\* target_license in pkg.license
license_matches(target_license, pkg) == Contains(pkg.license, target_license)

\* A plausible slip: a separator after every package.
separator_follows_always(i, n) == TRUE

\* i != len(_pacakges) - 1, for i counted from 0
separator_follows(i, n) == i # n - 1

\* The inner loop, from the package of index i (counted from 0) on.
RECURSIVE write_packages(_, _, _)
write_packages(out, _pacakges, i) ==
    IF i >= Len(_pacakges) THEN [exc |-> "", written |-> out]
    ELSE LET pkg == _pacakges[i + 1]
             o4 == out \o << <<"Package: ">> \o pkg.name \o <<"\n">>,
                            <<"Version: ">> \o pkg.version \o <<"\n">>,
                            <<"License: ">> \o pkg.license \o <<"\n">>,
                            <<"License Text:\n">> >>
         IN  IF pkg.license_text = None
             THEN [exc |-> "TypeError", written |-> o4]
             ELSE LET o5 == Append(o4, pkg.license_text \o <<"\n\n">>)
                      o6 == IF separator_follows(i, Len(_pacakges))
                            THEN Append(o5, rule("-", SeparatorWidth))
                            ELSE o5
                  IN  write_packages(o6, _pacakges, i + 1)

\* The outer loop, from the k-th target license on.
RECURSIVE write_licenses(_, _, _, _)
write_licenses(out, pkgs, targets, k) ==
    IF k > Len(targets) THEN [exc |-> "", written |-> out]
    ELSE LET target_license == targets[k]
         IN  IF \E j \in 1..Len(pkgs) : pkgs[j].license = None
             THEN [exc |-> "TypeError", written |-> out]
             ELSE LET _pacakges == SelectSeq(pkgs, LAMBDA pkg : license_matches(target_license, pkg))
                      banner == << rule("=", BannerWidth),
                                   <<"Third-party packages under the ">> \o target_license
                                       \o <<" License:\n">>,
                                   rule("=", BannerWidth) >>
                      r == write_packages(out \o banner, _pacakges, 0)
                  IN  IF r.exc # "" THEN r
                      ELSE write_licenses(r.written, pkgs, targets, k + 1)

\* A plausible slip: the file written is OUTPUT_FILE_PATH, whatever the argument.
_write_output_file_default_path(files, pkgs, path, targets) ==
    LET removed == IF exists(files, OUTPUT_FILE_PATH)
                   THEN remove(files, OUTPUT_FILE_PATH) ELSE files
        r == write_licenses(<<>>, pkgs, targets, 1)
    IN  [exc |-> r.exc, fs |-> [removed EXCEPT ![OUTPUT_FILE_PATH] = TextFile(r.written)]]

_write_output_file(files, pkgs, path, targets) ==
    LET removed == IF exists(files, path) THEN remove(files, path) ELSE files
        r == write_licenses(<<>>, pkgs, targets, 1)
    IN  [exc |-> r.exc, fs |-> [removed EXCEPT ![path] = TextFile(r.written)]]

----------------------------------------------------------------------------
(* The values the variables of a call hold while another call is modelled. *)

OTHER_INPUT_FILE_PATH == "other.json"

OTHER_OUTPUT_FILE_PATH == "NOTICE.txt"

Paths ==
    {INPUT_FILE_PATH, OTHER_INPUT_FILE_PATH, META_INPUT_FILE_PATH,
     REQUIREMENTS_FILE_PATH, OUTPUT_FILE_PATH, OTHER_OUTPUT_FILE_PATH}

NoFiles == [p \in Paths |-> Absent]

NoPackage == Package(None, None, None, None)

NoValidation == [exc |-> "", is_valid |-> TRUE, msg |-> <<>>]

NotRaised == <<"", "">>

ParseIdle ==
    /\ string = <<>>
    /\ requirement = NoRequirement

RecordIdle ==
    /\ d = <<>>
    /\ package = NoPackage
    /\ nan = FALSE

ArgsDefault ==
    /\ input_file_path = INPUT_FILE_PATH
    /\ output_file_path = OUTPUT_FILE_PATH
    /\ override_input_file = FALSE
    /\ target_licenses = TARGET_LICENSES

LocalsIdle ==
    /\ packages = <<>>
    /\ requirements = <<>>
    /\ validation = NoValidation
    /\ raised = NotRaised

RunIdle ==
    /\ fs = NoFiles
    /\ before = NoFiles
    /\ runs = 0
    /\ ArgsDefault
    /\ LocalsIdle

----------------------------------------------------------------------------
(* Requirement.from_string applied to every manifest line of at most       *)
(* MaxLen characters.                                                      *)

LineChars == {"a", "1", "=", "!", ">", "<", "~", " ", "\n"}

Lines == UNION {[1..n -> LineChars] : n \in 0..MaxLen}

InitParse ==
    /\ pc = "from_string"
    /\ string \in Lines
    /\ requirement = NoRequirement
    /\ RecordIdle
    /\ RunIdle

FromString ==
    /\ pc = "from_string"
    /\ requirement' = from_string(string)
    /\ pc' = "parsed"
    /\ UNCHANGED <<string, recordVars, runVars>>

SpecParse == InitParse /\ [][FromString]_vars

----------------------------------------------------------------------------
(* Package.from_dict and has_nan applied to every scanner record whose     *)
(* values are null or strings of the set FieldValues.                      *)

FieldChars == {"x", " "}

FieldValues ==
    UNION {[1..n -> FieldChars] : n \in 0..MaxFieldLen}
        \cup {LICENSE_UNKNOWN, <<"x">> \o LICENSE_UNKNOWN, None}

Dicts == UNION {[K -> FieldValues] : K \in SUBSET Keys}

InitRecord ==
    /\ pc = "from_dict"
    /\ d \in Dicts
    /\ package = NoPackage
    /\ nan = FALSE
    /\ ParseIdle
    /\ RunIdle

FromDict ==
    /\ pc = "from_dict"
    /\ package' = from_dict(d)
    /\ pc' = "has_nan"
    /\ UNCHANGED <<d, nan, parseVars, runVars>>

HasNan ==
    /\ pc = "has_nan"
    /\ nan' = has_nan(package)
    /\ pc' = "checked"
    /\ UNCHANGED <<d, package, parseVars, runVars>>

NextRecord == FromDict \/ HasNan

SpecRecord == InitRecord /\ [][NextRecord]_vars

----------------------------------------------------------------------------
(* main.py: gen_license_txt, one action per call it makes.  A raised       *)
(* exception ends the run (nothing in main.py catches one).                *)

\* An exception raised in function `where`: the run is over.
Abort(where, exc) ==
    /\ pc' = "aborted"
    /\ raised' = <<where, exc>>

\* What the pip-licenses process can do when it is run.
ScanRecords ==
    {[Name |-> <<"A">>, Version |-> <<"1">>, License |-> MIT, LicenseText |-> <<"t">>],
     [Name |-> <<"B">>, Version |-> <<"1">>, LicenseText |-> <<"t">>],
     [Name |-> <<"C">>, Version |-> <<"1">>, License |-> BSD]}

RecordLists == UNION {[1..n -> ScanRecords] : n \in 0..MaxRecords}

Scanners ==
    {[does |-> "writes", records |-> lst] : lst \in RecordLists}
        \cup {[does |-> "nothing", records |-> <<>>], [does |-> "raises", records |-> <<>>]}

\* The files a first run can find.
MetaRecord ==
    [Name |-> <<"M">>, Version |-> <<"2">>, License |-> MIT, LicenseText |-> <<"m">>]

ManifestLines == << <<"A", "=", "=", "1", "\n">>, <<"Z", "\n">> >>

InitialFiles ==
    {f \in [Paths -> {Absent, JsonNull, JsonFile(<<MetaRecord>>),
                      JsonFile(<<CHOOSE r \in ScanRecords : r.Name = <<"A">> >>),
                      LinesFile(ManifestLines)}] :
        /\ f[INPUT_FILE_PATH].kind \in {"absent", "json"}
        /\ f[INPUT_FILE_PATH].kind = "json" => f[INPUT_FILE_PATH].data # <<MetaRecord>>
        /\ f[OTHER_INPUT_FILE_PATH].kind = "absent"
        /\ f[META_INPUT_FILE_PATH].kind \in {"absent", "json_null", "json"}
        /\ f[META_INPUT_FILE_PATH].kind = "json" => f[META_INPUT_FILE_PATH].data = <<MetaRecord>>
        /\ f[REQUIREMENTS_FILE_PATH].kind \in {"absent", "lines"}
        /\ f[OUTPUT_FILE_PATH].kind = "absent"
        /\ f[OTHER_OUTPUT_FILE_PATH].kind = "absent"}

RunTargets == {TARGET_LICENSES}

Init ==
    /\ pc = "idle"
    /\ fs \in InitialFiles
    /\ before = fs
    /\ runs = 0
    /\ ArgsDefault
    /\ LocalsIdle
    /\ ParseIdle
    /\ RecordIdle

\* gen_license_txt is called.
GenLicenseTxt ==
    /\ pc \in {"idle", "done", "aborted"}
    /\ runs < MaxRuns
    /\ runs' = runs + 1
    /\ input_file_path' \in {INPUT_FILE_PATH, OTHER_INPUT_FILE_PATH}
    /\ output_file_path' \in {OUTPUT_FILE_PATH, OTHER_OUTPUT_FILE_PATH}
    /\ override_input_file' \in BOOLEAN
    /\ target_licenses' \in RunTargets
    /\ before' = fs
    /\ packages' = <<>>
    /\ requirements' = <<>>
    /\ validation' = NoValidation
    /\ raised' = NotRaised
    /\ pc' = "_write_input_file"
    /\ UNCHANGED <<fs, parseVars, recordVars>>

WriteInputFile ==
    /\ pc = "_write_input_file"
    /\ \E scanner \in Scanners :
        LET r == _write_input_file(fs, input_file_path, override_input_file, scanner)
        IN  /\ fs' = r.fs
            /\ IF r.exc # "" THEN Abort("_write_input_file", r.exc)
               ELSE pc' = "_read_input_file" /\ UNCHANGED raised
    /\ UNCHANGED <<before, runs, argVars, packages, requirements, validation,
                   parseVars, recordVars>>

ReadInputFile ==
    /\ pc = "_read_input_file"
    /\ LET r == _read_input_file(fs, input_file_path)
       IN  /\ packages' = r.val
           /\ IF r.exc # "" THEN Abort("_read_input_file", r.exc)
              ELSE pc' = "_read_requirement_file" /\ UNCHANGED raised
    /\ UNCHANGED <<fs, before, runs, argVars, requirements, validation,
                   parseVars, recordVars>>

ReadRequirementFile ==
    /\ pc = "_read_requirement_file"
    /\ LET r == _read_requirement_file(fs, REQUIREMENTS_FILE_PATH)
       IN  /\ requirements' = r.val
           /\ IF r.exc # "" THEN Abort("_read_requirement_file", r.exc)
              ELSE pc' = "_is_valid_packages" /\ UNCHANGED raised
    /\ UNCHANGED <<fs, before, runs, argVars, packages, validation,
                   parseVars, recordVars>>

IsValidPackages ==
    /\ pc = "_is_valid_packages"
    /\ LET r == _is_valid_packages(packages, requirements)
       IN  /\ validation' = r
           /\ IF r.exc # "" THEN Abort("_is_valid_packages", r.exc)
              ELSE pc' = "_write_output_file" /\ UNCHANGED raised
    /\ UNCHANGED <<fs, before, runs, argVars, packages, requirements,
                   parseVars, recordVars>>

WriteOutputFile ==
    /\ pc = "_write_output_file"
    /\ LET r == _write_output_file(fs, packages, output_file_path, target_licenses)
       IN  /\ fs' = r.fs
           /\ IF r.exc # "" THEN Abort("_write_output_file", r.exc)
              ELSE pc' = "done" /\ UNCHANGED raised
    /\ UNCHANGED <<before, runs, argVars, packages, requirements, validation,
                   parseVars, recordVars>>

Next ==
    \/ GenLicenseTxt
    \/ WriteInputFile
    \/ ReadInputFile
    \/ ReadRequirementFile
    \/ IsValidPackages
    \/ WriteOutputFile

Spec == Init /\ [][Next]_vars

----------------------------------------------------------------------------
(* _is_valid_packages applied to every list of at most MaxPkgs packages    *)
(* and every list of at most MaxReqs requirements drawn from the sets      *)
(* below: complete packages, a package without a name, one with an unknown *)
(* license and a long license text, one without a license text.            *)

LongText == [i \in 1..ReprLimit |-> "z"]

ValidatePackages ==
    {Package(<<"A">>, <<"1">>, MIT, <<"t">>),
     Package(<<"B">>, <<"1">>, MIT, <<"t">>),
     Package(None, <<"1">>, MIT, <<"t">>),
     Package(<<"A">>, <<"1">>, LICENSE_UNKNOWN, LongText),
     Package(<<"B">>, <<"1">>, MIT, None)}

ValidateLines ==
    {<<"A">>, <<"C", "\n">>, <<"A", "=", "=", "1">>, <<"B", ">", "=", "2">>}

ValidateRequirements == {from_string(line) : line \in ValidateLines}

InitValidate ==
    /\ pc = "_is_valid_packages"
    /\ packages \in UNION {[1..n -> ValidatePackages] : n \in 0..MaxPkgs}
    /\ requirements \in UNION {[1..n -> ValidateRequirements] : n \in 0..MaxReqs}
    /\ validation = NoValidation
    /\ raised = NotRaised
    /\ fs = NoFiles
    /\ before = NoFiles
    /\ runs = 0
    /\ ArgsDefault
    /\ ParseIdle
    /\ RecordIdle

SpecValidate == InitValidate /\ [][IsValidPackages]_vars

----------------------------------------------------------------------------
(* _write_output_file applied to every list of at most MaxPkgs packages    *)
(* and every list of at most MaxTargets target licenses drawn from the     *)
(* sets below, the output file being absent or left by an earlier run.     *)

BSD3 == <<"B", "S", "D", "-", "3", "-", "C", "l", "a", "u", "s", "e">>

RenderPackages ==
    {Package(<<"x">>, <<"1">>, MIT, <<"t">>),
     Package(<<"y">>, <<"2">>, BSD3, <<"u">>),
     Package(<<"d">>, <<"3">>, BSD3 \o <<" ", "O", "R", " ">> \o MIT, <<"v">>),
     Package(<<"q">>, <<"4">>, <<"A", "p", "a", "c", "h", "e">>, <<"w">>),
     Package(<<"n">>, <<"5">>, None, <<"t">>),
     Package(<<"x">>, <<"1">>, MIT, None)}

RenderTargets == UNION {[1..n -> {MIT, BSD, GPL}] : n \in 0..MaxTargets}

OldReport == TextFile(<< <<"o", "l", "d", "\n">> >>)

InitRender ==
    /\ pc = "_write_output_file"
    /\ packages \in UNION {[1..n -> RenderPackages] : n \in 0..MaxPkgs}
    /\ target_licenses \in RenderTargets
    /\ output_file_path = OUTPUT_FILE_PATH
    /\ fs \in {NoFiles, [NoFiles EXCEPT ![OUTPUT_FILE_PATH] = OldReport]}
    /\ before = fs
    /\ input_file_path = INPUT_FILE_PATH
    /\ override_input_file = FALSE
    /\ requirements = <<>>
    /\ validation = NoValidation
    /\ raised = NotRaised
    /\ runs = 0
    /\ ParseIdle
    /\ RecordIdle

SpecRender == InitRender /\ [][WriteOutputFile]_vars

----------------------------------------------------------------------------
(* Claims about Requirement.from_string (SpecParse).                       *)

\* The seven operator tokens in the fixed order ==, !=, >=, <=, >, <, ~=, and the
\* operator kind each yields (the token != yields EE).
TokenOrder ==
    << <<"=", "=">>, <<"!", "=">>, <<">", "=">>, <<"<", "=">>, <<">">>, <<"<">>, <<"~", "=">> >>

TokenKind == <<"EE", "EE", "GE", "LE", "G", "L", "TE">>

OperatorChars == {"=", "!", ">", "<", "~"}

\* t is s without its leading and trailing whitespace.
IsTrimOf(t, s) ==
    \E i \in 0..Len(s) : \E j \in i..Len(s) :
        /\ t = SubSeq(s, i + 1, j)
        /\ \A k \in 1..Len(s) : (k <= i \/ k > j) => s[k] \in Whitespace
        /\ t # <<>> => (t[1] \notin Whitespace /\ t[Len(t)] \notin Whitespace)

TrimmedLine(s) ==
    CHOOSE t \in {SubSeq(s, i + 1, j) : i \in 0..Len(s), j \in 0..Len(s)} : IsTrimOf(t, s)

OccursAt(s, t, i) ==
    /\ i >= 1
    /\ i + Len(t) - 1 <= Len(s)
    /\ SubSeq(s, i, i + Len(t) - 1) = t

Occurs(s, t) == \E i \in 1..(Len(s) - Len(t) + 1) : OccursAt(s, t, i)

NoOperatorChar(s) == \A i \in 1..Len(s) : s[i] \notin OperatorChars

\* C1: from_string splits the trimmed line on the token that comes first in the
\* fixed order ==, !=, >=, <=, >, <, ~= among the tokens the line contains (at the
\* leftmost occurrence of that token: the name is what precedes it, the version what
\* follows up to the next occurrence), and for a line name<op>version whose name and
\* version hold no operator character it returns that name, that version and the
\* kind of the token, the token != yielding EE.
C1_FixedOrderToken ==
    pc = "parsed" =>
        LET s == TrimmedLine(string)
            present == {k \in 1..7 : Occurs(s, TokenOrder[k])}
        IN  /\ present # {} =>
                LET k == Min(present)
                    t == TokenOrder[k]
                IN  \E i \in 1..Len(s) :
                        /\ OccursAt(s, t, i)
                        /\ \A j \in 1..(i - 1) : ~OccursAt(s, t, j)
                        /\ requirement.exc = ""
                        /\ requirement.operator = TokenKind[k]
                        /\ requirement.name = SubSeq(s, 1, i - 1)
                        /\ LET rest == SubSeq(s, i + Len(t), Len(s))
                               v == requirement.version
                           IN  /\ Len(v) <= Len(rest)
                               /\ v = SubSeq(rest, 1, Len(v))
                               /\ ~Occurs(v, t)
                               /\ v # rest => OccursAt(rest, t, Len(v) + 1)
            /\ \A k \in 1..7 : \A i \in 0..Len(s) :
                LET t == TokenOrder[k]
                    n == SubSeq(s, 1, i)
                    v == SubSeq(s, i + Len(t) + 1, Len(s))
                IN  (OccursAt(s, t, i + 1) /\ NoOperatorChar(n) /\ NoOperatorChar(v)) =>
                        requirement = [exc |-> "", name |-> n, version |-> v,
                                       operator |-> TokenKind[k]]

\* "a>=1" has been parsed to (a, 1, GE).
C1_Witness ==
    /\ pc = "parsed"
    /\ string = <<"a", ">", "=", "1">>
    /\ requirement = [exc |-> "", name |-> <<"a">>, version |-> <<"1">>, operator |-> "GE"]

\* C2: from_string never fails, and a trimmed line that contains none of the seven
\* operator tokens becomes the bare name: the whole trimmed line, an empty version
\* and the operator U.
C2_NeverFails ==
    pc = "parsed" =>
        /\ requirement.exc = ""
        /\ LET s == TrimmedLine(string)
           IN  (\A k \in 1..7 : ~Occurs(s, TokenOrder[k])) =>
                   requirement = [exc |-> "", name |-> s, version |-> <<>>, operator |-> "U"]

\* A line that ends with an operator token has been parsed without a fault.
C2_Witness ==
    /\ pc = "parsed"
    /\ string = <<"a", "=", "=", "\n">>
    /\ requirement = [exc |-> "", name |-> <<"a">>, version |-> <<>>, operator |-> "EE"]

----------------------------------------------------------------------------
(* Claims about Package.from_dict and has_nan (SpecRecord).                *)

\* The field of key k is absent from the record (no key, or null), empty, or
\* contains the sentinel.
FieldMissing(dict, k) ==
    \/ k \notin DOMAIN dict
    \/ dict[k] = None
    \/ dict[k] = <<>>
    \/ Occurs(dict[k], LICENSE_UNKNOWN)

OnlyWhitespace(s) == \A i \in 1..Len(s) : s[i] \in Whitespace

\* C3 as stated: has_nan holds of the Package built from a record if and only if
\* one of the record's four fields is absent, empty or contains the sentinel.
C3_Original ==
    pc = "checked" => (nan <=> \E k \in Keys : FieldMissing(d, k))

\* C3, amended: has_nan holds of the Package built from a record if and only if one
\* of the record's four fields is absent, empty or contains the sentinel, or its
\* LicenseText consists of whitespace only (from_dict stores the text trimmed).
C3_IncompleteIff ==
    pc = "checked" =>
        (nan <=> \/ \E k \in Keys : FieldMissing(d, k)
                 \/ OnlyWhitespace(d["LicenseText"]))

\* A record whose four fields are present and free of the sentinel, with a
\* LicenseText of one blank, has been found incomplete.
C3_Witness ==
    /\ pc = "checked"
    /\ d = [Name |-> <<"x">>, Version |-> <<"x">>, License |-> <<"x">>,
            LicenseText |-> <<" ">>]
    /\ nan

----------------------------------------------------------------------------
(* Claims about _is_valid_packages (SpecValidate).                         *)

UnrequiredPrefix == <<"!!!! found unrequired pkg: ">>

UnsatisfiedPrefix == <<"!!!! found unsatisfied pkg: ">>

\* The number of lines of the report msg that are exactly the diagnostic diag.
CountDiag(msg, diag) ==
    Cardinality({i \in 1..Len(msg) :
        /\ OccursAt(msg, diag, i)
        /\ (i = 1 \/ msg[i - 1] = "\n")
        /\ (i + Len(diag) = Len(msg) + 1 \/ msg[i + Len(diag)] = "\n")})

\* The number of diagnostics of the report msg that start with prefix.
CountPrefix(msg, prefix) == Cardinality({i \in 1..Len(msg) : msg[i] = prefix[1]})

NameOfNoRequirement(p) == \A j \in 1..Len(requirements) : requirements[j].name # p.name

NameOfNoPackage(r) == \A j \in 1..Len(packages) : packages[j].name # r.name

\* C4: in the report _is_valid_packages returns, every Package whose name equals no
\* Requirement name has exactly one "unrequired" diagnostic and no other Package has
\* one, every Requirement whose name equals no Package name has exactly one
\* "unsatisfied" diagnostic and no other Requirement has one, and the flag is false
\* if and only if the report holds a diagnostic.
C4_Diagnostics ==
    (pc = "_write_output_file") =>
        LET msg == validation.msg
            P == 1..Len(packages)
            R == 1..Len(requirements)
        IN  /\ \A i \in P :
                CountDiag(msg, UnrequiredPrefix \o Package_repr(packages[i]).val)
                    = IF NameOfNoRequirement(packages[i])
                      THEN Cardinality({j \in P : packages[j] = packages[i]})
                      ELSE 0
            /\ CountPrefix(msg, UnrequiredPrefix)
                    = Cardinality({i \in P : NameOfNoRequirement(packages[i])})
            /\ \A i \in R :
                CountDiag(msg, UnsatisfiedPrefix \o Requirement_repr(requirements[i]))
                    = IF NameOfNoPackage(requirements[i])
                      THEN Cardinality({j \in R : requirements[j] = requirements[i]})
                      ELSE 0
            /\ CountPrefix(msg, UnsatisfiedPrefix)
                    = Cardinality({i \in R : NameOfNoPackage(requirements[i])})
            /\ (validation.is_valid = FALSE) <=> (msg # <<>>)

\* Packages A, B and requirements A, C: one unrequired diagnostic, for B, one
\* unsatisfied diagnostic, for C, and the flag is false.
C4_Witness ==
    /\ pc = "_write_output_file"
    /\ packages = <<Package(<<"A">>, <<"1">>, MIT, <<"t">>),
                    Package(<<"B">>, <<"1">>, MIT, <<"t">>)>>
    /\ requirements = <<Requirement(<<"A">>, <<>>, "U"), Requirement(<<"C">>, <<>>, "U")>>
    /\ validation.is_valid = FALSE
    /\ validation.msg =
           <<"!!!! found unrequired pkg: ", "name=", "B", ", version=", "1",
             ", license=", "M", "I", "T", ", license_text=", "t", "\n",
             "!!!! found unsatisfied pkg: ", "C", " ">>

----------------------------------------------------------------------------
(* Claims about _write_output_file (SpecRender).                           *)

IsTitle(w) == Len(w) >= 1 /\ w[1] = "Third-party packages under the "

BannerRule == [i \in 1..80 |-> "="] \o <<"\n">>

SeparatorRule == [i \in 1..80 |-> "-"] \o <<"\n">>

\* The five strings written for a package.
Block(p) ==
    << <<"Package: ">> \o p.name \o <<"\n">>,
       <<"Version: ">> \o p.version \o <<"\n">>,
       <<"License: ">> \o p.license \o <<"\n">>,
       <<"License Text:\n">>,
       p.license_text \o <<"\n\n">> >>

\* The report written by the call that has just returned.
Report == fs[output_file_path].data

Titles == {j \in 1..Len(Report) : IsTitle(Report[j])}

\* The position of the k-th title line of the report.
TitleAt(k) == CHOOSE j \in Titles : Cardinality({i \in Titles : i < j}) = k - 1

\* What the k-th section holds below its banner.
SectionBody(k) ==
    SubSeq(Report, TitleAt(k) + 2,
           IF k < Cardinality(Titles) THEN TitleAt(k + 1) - 2 ELSE Len(Report))

\* The number of blocks of package p in a section body.
Listed(body, p) ==
    Cardinality({m \in 1..(Len(body) - 4) : SubSeq(body, m, m + 4) = Block(p)})

\* C6: in the rendered report a package is listed in the section of a target
\* license exactly when the target occurs in its license as a substring: once for
\* each time it occurs in the input list, in each section whose target its license
\* contains, and in no other section.
C6_SubstringSections ==
    pc = "done" =>
        /\ Cardinality(Titles) = Len(target_licenses)
        /\ \A k \in 1..Len(target_licenses) :
            /\ Report[TitleAt(k)] = <<"Third-party packages under the ">>
                                        \o target_licenses[k] \o <<" License:\n">>
            /\ \A i \in 1..Len(packages) :
                Listed(SectionBody(k), packages[i])
                    = IF Occurs(packages[i].license, target_licenses[k])
                      THEN Cardinality({j \in 1..Len(packages) : packages[j] = packages[i]})
                      ELSE 0

\* A package under "BSD-3-Clause OR MIT" is listed in the BSD and the MIT section,
\* a package under Apache in neither.
C6_Witness ==
    /\ pc = "done"
    /\ target_licenses = <<BSD, MIT>>
    /\ packages = <<Package(<<"d">>, <<"3">>, BSD3 \o <<" ", "O", "R", " ">> \o MIT, <<"v">>),
                    Package(<<"q">>, <<"4">>, <<"A", "p", "a", "c", "h", "e">>, <<"w">>)>>
    /\ Listed(SectionBody(1), packages[1]) = 1
    /\ Listed(SectionBody(2), packages[1]) = 1
    /\ Listed(SectionBody(1), packages[2]) = 0
    /\ Listed(SectionBody(2), packages[2]) = 0

\* C7: the rendered report has one section per target license, in the order given,
\* each opened by the banner (rule of 80 "=", title, rule of 80 "=") even when it
\* lists no package; a section lists its packages in their order in the input list,
\* and a section of n >= 1 blocks holds n - 1 separators of 80 "-", one between two
\* consecutive blocks, none before the first block or after the last.
C7_SectionLayout ==
    pc = "done" =>
        /\ Cardinality(Titles) = Len(target_licenses)
        /\ Cardinality({j \in 1..Len(Report) : Report[j] = BannerRule})
               = 2 * Len(target_licenses)
        /\ Len(target_licenses) = 0 => Report = <<>>
        /\ Len(target_licenses) > 0 => TitleAt(1) = 2
        /\ \A k \in 1..Len(target_licenses) :
            LET t == TitleAt(k)
                body == SectionBody(k)
                listed == SelectSeq(packages,
                              LAMBDA p : Occurs(p.license, target_licenses[k]))
                n == Len(listed)
            IN  /\ Report[t] = <<"Third-party packages under the ">>
                                   \o target_licenses[k] \o <<" License:\n">>
                /\ Report[t - 1] = BannerRule
                /\ Report[t + 1] = BannerRule
                /\ Len(body) = IF n = 0 THEN 0 ELSE 5 * n + (n - 1)
                /\ \A m \in 1..n :
                    /\ SubSeq(body, 6 * (m - 1) + 1, 6 * (m - 1) + 5) = Block(listed[m])
                    /\ m < n => body[6 * m] = SeparatorRule
                /\ Cardinality({j \in 1..Len(body) : body[j] = SeparatorRule})
                       = IF n = 0 THEN 0 ELSE n - 1

\* Targets MIT, BSD and three packages: the MIT section lists x and d with one
\* separator between them, the BSD section y and d likewise.
C7_Witness ==
    /\ pc = "done"
    /\ target_licenses = <<MIT, BSD>>
    /\ packages = <<Package(<<"x">>, <<"1">>, MIT, <<"t">>),
                    Package(<<"y">>, <<"2">>, BSD3, <<"u">>),
                    Package(<<"d">>, <<"3">>, BSD3 \o <<" ", "O", "R", " ">> \o MIT, <<"v">>)>>
    /\ Len(Report) = 28
    /\ Report[9] = SeparatorRule
    /\ Report[23] = SeparatorRule
    /\ Cardinality({j \in 1..Len(Report) : Report[j] = SeparatorRule}) = 2

----------------------------------------------------------------------------
(* Claims about gen_license_txt (Spec).                                    *)

\* Two files are the same: both absent, or of one kind with the same content.
FileEq(f, g) == f.kind = g.kind /\ f.data = g.data

\* C5 as stated: consistency violations are never fatal: whatever packages and
\* requirements were parsed, the validation step returns its report without raising
\* and the Aggregator step then runs and writes the full report, so a run that got
\* as far as the validation never aborts.
C5_ViolationsNeverFatal ==
    pc = "aborted" => raised[1] \notin {"_is_valid_packages", "_write_output_file"}

\* C8 as stated: a run that ends in a fault leaves the output file exactly as it
\* was before the run: neither created, truncated, deleted nor partly written.
C8_NoPartialReport ==
    pc = "aborted" => FileEq(fs[output_file_path], before[output_file_path])

C10_ReadsGivenPath ==
    pc \in {"_read_requirement_file", "_is_valid_packages", "_write_output_file", "done"} =>
        LET given == fs[input_file_path]
            meta == fs[META_INPUT_FILE_PATH]
        IN  /\ given.kind \in {"json", "json_null"}
            /\ meta.kind \in {"json", "json_null"}
            /\ LET all == given.data \o meta.data
               IN  packages = [i \in 1..Len(all) |-> from_dict(all[i])]

====
